---- MODULE Spec2Model ----
(***************************************************************************)
(* ElfomoFi SDK: the snapshot-refresh protocol of ElfomoFiClient, the      *)
(* BlockListener that drives it, and the piecewise-linear quoting engine.  *)
(*                                                                         *)
(* asyncio runs every coroutine on one thread, so a coroutine is only      *)
(* interleaved with others at its awaits.  Each action below is the code   *)
(* between two consecutive awaits of one coroutine.                        *)
(***************************************************************************)
EXTENDS Integers, Sequences, FiniteSets, TLC

(* ---------------------------- bounds ----------------------------------- *)

\* highest block number the node reports
MaxBlock == 2
\* number of block notifications dispatched over a run (one task each)
MaxTasks == 2

(* ---------------------------- addresses -------------------------------- *)

\* checksummed addresses, as web3 decodes them from the ABI response
WETH == "0xWeth"
USDC == "0xUsdc"
DAI == "0xDai"

\* (from_token, to_token) strings a caller passes to quote(): checksummed,
\* lower-case, not an address
QuoteDirections ==
    { <<"0xweth", "0xUsdc">>, <<"0xDai", "0xusdc">>, <<"0xUsdc", "0xUsdc">>,
      <<"nothex", "0xUsdc">>, <<"0xUsdc", "0x12">> }
QuoteAmounts == {0, 200}

InvalidAddress == "InvalidAddress"

\* web3's to_checksum_address: re-cases a hex address, raises on anything else
to_checksum_address(s) ==
    CASE s \in {"0xWeth", "0xweth"} -> "0xWeth"
      [] s \in {"0xUsdc", "0xusdc"} -> "0xUsdc"
      [] s \in {"0xDai", "0xdai"} -> "0xDai"
      [] OTHER -> InvalidAddress

(* ---------------------------- data model ------------------------------- *)

ProbePoint(ain, aout) == [amount_in |-> ain, amount_out |-> aout]

TokenPair(base, quote) == [base_token |-> base, quote_token |-> quote]

DirectionBook(from_token, to_token, probes, from_balance, to_balance) ==
    [from_token |-> from_token, to_token |-> to_token, probes |-> probes,
     from_balance |-> from_balance, to_balance |-> to_balance]

QuoteResult(from_token, to_token, amount_in, amount_out, block_number) ==
    [from_token |-> from_token, to_token |-> to_token, amount_in |-> amount_in,
     amount_out |-> amount_out, block_number |-> block_number]

RawPairData(pair, ask_probes, bid_probes, balance_base, balance_quote) ==
    [pair |-> pair, ask_probes |-> ask_probes, bid_probes |-> bid_probes,
     balance_base |-> balance_base, balance_quote |-> balance_quote]

FetchResult(pairs, block_number, block_timestamp) ==
    [pairs |-> pairs, block_number |-> block_number,
     block_timestamp |-> block_timestamp]

build_direction_book(from_token, to_token, probes, from_balance, to_balance) ==
    DirectionBook(from_token, to_token, probes, from_balance, to_balance)

(* ---------------------------- quoting engine --------------------------- *)

\* Python's None, and an exception leaving a call
None == [none |-> TRUE]
Raised(exc) == [raised |-> exc]

\* a for-loop of _calc_quote that takes the first segment whose upper point
\* lies strictly above amount_in
RECURSIVE calc_segments_strict(_, _, _)
calc_segments_strict(probes, amount_in, i) ==
    IF i > Len(probes) - 1
    THEN [stmt |-> "cap", i |-> Len(probes)]
    ELSE IF amount_in < probes[i + 1].amount_in
         THEN IF probes[i + 1].amount_in - probes[i].amount_in = 0
              THEN [stmt |-> "segment_zero", i |-> i]
              ELSE [stmt |-> "segment", i |-> i]
         ELSE calc_segments_strict(probes, amount_in, i + 1)

RECURSIVE calc_segments(_, _, _)
\* the for-loop of _calc_quote, from index i (0-based in the code, 1-based
\* here): the return statement it reaches and the index of its lower point
calc_segments(probes, amount_in, i) ==
    IF i > Len(probes) - 1
    THEN [stmt |-> "cap", i |-> Len(probes)]
    ELSE IF amount_in <= probes[i + 1].amount_in
         THEN IF probes[i + 1].amount_in - probes[i].amount_in = 0
              THEN [stmt |-> "segment_zero", i |-> i]
              ELSE [stmt |-> "segment", i |-> i]
         ELSE calc_segments(probes, amount_in, i + 1)

\* a _calc_quote without its origin segment
calc_quote_site_no_origin(probes, amount_in) ==
    calc_segments(probes, amount_in, 1)

\* the return statement _calc_quote reaches
calc_quote_site(probes, amount_in) ==
    IF amount_in <= probes[1].amount_in
    THEN IF probes[1].amount_in = 0
         THEN [stmt |-> "origin_zero", i |-> 0]
         ELSE [stmt |-> "origin", i |-> 0]
    ELSE calc_segments(probes, amount_in, 1)

\* the divisor of the floor division at that statement, 1 where it has none
calc_quote_divisor(probes, site) ==
    CASE site.stmt = "origin" -> probes[1].amount_in
      [] site.stmt = "segment" ->
            probes[site.i + 1].amount_in - probes[site.i].amount_in
      [] OTHER -> 1

\* the interpolation rounding up instead of down
calc_quote_value_rounding_up(probes, amount_in, site) ==
    CASE site.stmt = "origin" ->
            -(((-amount_in) * probes[1].amount_out) \div probes[1].amount_in)
      [] site.stmt = "segment" ->
            LET lower == probes[site.i]
                upper == probes[site.i + 1]
            IN lower.amount_out
                 - (((lower.amount_in - amount_in)
                        * (upper.amount_out - lower.amount_out))
                     \div (upper.amount_in - lower.amount_in))
      [] site.stmt = "segment_zero" -> probes[site.i].amount_out
      [] site.stmt = "cap" -> probes[Len(probes)].amount_out
      [] OTHER -> 0

\* the interpolation carried on beyond the last probe instead of capped
calc_quote_value_extrapolating(probes, amount_in, site) ==
    CASE site.stmt = "origin" ->
            (amount_in * probes[1].amount_out) \div probes[1].amount_in
      [] site.stmt = "segment" ->
            LET lower == probes[site.i]
                upper == probes[site.i + 1]
            IN lower.amount_out
                 + (((amount_in - lower.amount_in)
                        * (upper.amount_out - lower.amount_out))
                     \div (upper.amount_in - lower.amount_in))
      [] site.stmt = "segment_zero" -> probes[site.i].amount_out
      [] site.stmt = "cap" ->
            probes[Len(probes)].amount_out
               + (amount_in - probes[Len(probes)].amount_in)
      [] OTHER -> 0

\* the value that statement returns (// is floor division, as \div is)
calc_quote_value(probes, amount_in, site) ==
    CASE site.stmt = "origin" ->
            (amount_in * probes[1].amount_out) \div probes[1].amount_in
      [] site.stmt = "segment" ->
            LET lower == probes[site.i]
                upper == probes[site.i + 1]
                delta_in == upper.amount_in - lower.amount_in
                delta_out == upper.amount_out - lower.amount_out
                excess == amount_in - lower.amount_in
            IN lower.amount_out + ((excess * delta_out) \div delta_in)
      [] site.stmt = "segment_zero" -> probes[site.i].amount_out
      [] site.stmt = "cap" -> probes[Len(probes)].amount_out
      [] OTHER -> 0

calc_quote(probes, amount_in) ==
    calc_quote_value(probes, amount_in, calc_quote_site(probes, amount_in))

empty_result(direction, amount_in, amount_out, block_number) ==
    QuoteResult(direction.from_token, direction.to_token, amount_in, amount_out,
                block_number)

\* a division by zero in _calc_quote leaves get_amount_out as ZeroDivisionError
get_amount_out(direction, amount_in, block_number) ==
    LET probes == direction.probes
    IN IF amount_in <= 0 \/ Len(probes) = 0
       THEN empty_result(direction, amount_in, 0, block_number)
       ELSE IF calc_quote_divisor(probes, calc_quote_site(probes, amount_in)) = 0
            THEN Raised("ZeroDivisionError")
            ELSE QuoteResult(direction.from_token, direction.to_token, amount_in,
                             calc_quote(probes, amount_in), block_number)

(* ---------------------------- fetcher ---------------------------------- *)

RECURSIVE filter_probes(_)
\* the list comprehensions of _decode_pair: keep the levels with p[0] > 0
filter_probes(levels) ==
    IF levels = <<>>
    THEN <<>>
    ELSE LET p == Head(levels)
         IN IF p[1] > 0
            THEN <<ProbePoint(p[1], p[2])>> \o filter_probes(Tail(levels))
            ELSE filter_probes(Tail(levels))

decode_pair(entry) ==
    RawPairData(TokenPair(entry[1], entry[2]), filter_probes(entry[3]),
                filter_probes(entry[4]), entry[5], entry[6])

RECURSIVE decode_books(_)
decode_books(books) ==
    IF books = <<>>
    THEN <<>>
    ELSE <<decode_pair(Head(books))>> \o decode_books(Tail(books))

\* the contract's state: 1 = two pools are registered, 2 = none is
BookContents == {1, 2}

\* what getAllOrderbooks() returns: content d as sampled at block b.  A level
\* with amountIn = 0 is a failed probe.
Books(d, b) ==
    CASE d = 1 ->
           << <<WETH, USDC,
                << <<100, 200 + b>>, <<0, 0>>, <<300, 500 + b>> >>,
                << <<100, 40 + b>>, <<100, 45 + b>>, <<400, 90 + b>> >>,
                70 + b, 80 + b>>,
              <<DAI, USDC,
                << <<50, 50 + b>> >>,
                << >>,
                30 + b, 20 + b>> >>
      [] OTHER -> << >>

Timestamp(d, b) == 1000 + (12 * b) + d

\* the tuple (books, block_number, block_timestamp) of a successful call
Responses ==
    { <<Books(d, b), b, Timestamp(d, b)>> : d \in BookContents, b \in 1..MaxBlock }

fetch_all_orderbooks(resp) ==
    FetchResult(decode_books(resp[1]), resp[2], resp[3])

(* ---------------------------- chains ------------------------------------ *)

BASE ==
    [chain_id |-> 8453, name |-> "Base",
     helper_address |-> "0xc1b13606FC7227f2554067aFb3fb12De75C02d81"]

CHAINS == [c \in {BASE.chain_id} |-> BASE]

\* the chain_id arguments a caller constructs a client with
ChainIds == {BASE.chain_id, 1, 0}

(* ---------------------------- state ------------------------------------ *)

VARIABLES
    directions,       \* ElfomoFiClient._directions: (from, to) -> DirectionBook
    pair_keys,        \* ElfomoFiClient._pair_keys: list of (base, quote)
    current_block,    \* ElfomoFiClient._current_block
    block_timestamp,  \* ElfomoFiClient._block_timestamp
    initialized,      \* ElfomoFiClient._initialized (asyncio.Event) is set
    running,          \* BlockListener._running
    ws_task,          \* BlockListener._task and where its _ws_loop stands
    tasks,            \* the _run_callback tasks created so far, oldest first: the
                      \* locals of _on_new_block while it runs, its outcome after
                      \* (block_number 0: the local is gone)
    start_pc,         \* the caller's latest start(): where it stands
    stop_pc,          \* the caller's latest stop(): where it stands
    logged,           \* the task whose _on_new_block wrote the latest log record
    last_quote,       \* what the latest quote() call returned to its caller
    ctor,             \* the ElfomoFiClient(...) call: its chain_id, where it
                      \* stands and the collaborators it has created
    eng_call,         \* the arguments of a direct call of get_amount_out
    eng_result        \* what that call returned (None: not called yet)

client == <<directions, pair_keys, current_block, block_timestamp, initialized>>

listener == <<running, ws_task>>

engine == <<eng_call, eng_result>>

vars == <<directions, pair_keys, current_block, block_timestamp, initialized,
          running, ws_task, tasks, logged, start_pc, stop_pc, last_quote,
          ctor, eng_call, eng_result>>

\* no quote() has returned since the last step of another coroutine
NoQuote == [called |-> FALSE]

EmptyDirs == [k \in {} |-> None]

\* the five fields of ElfomoFiClient that _on_new_block assigns
Published ==
    [directions |-> directions, pair_keys |-> pair_keys,
     current_block |-> current_block, block_timestamp |-> block_timestamp,
     initialized |-> initialized]

\* the fields as __init__ assigns them, no coroutine started, no call made
Fresh ==
    /\ directions = EmptyDirs
    /\ pair_keys = <<>>
    /\ current_block = 0
    /\ block_timestamp = 0
    /\ initialized = FALSE
    /\ running = FALSE
    /\ ws_task = "none"
    /\ tasks = <<>>
    /\ logged = 0
    /\ start_pc = "idle"
    /\ stop_pc = "idle"
    /\ last_quote = NoQuote

\* what __init__ creates after the chain lookup
Collaborators == {"provider", "helper", "fetcher", "listener", "state"}

\* the ElfomoFiClient(...) call has not run yet
Pending(chain_id) == [chain_id |-> chain_id, st |-> "pending", created |-> {}]

\* an __init__ that falls back to BASE for a chain_id it does not know
init_with_default_chain(chain_id) ==
    [chain_id |-> chain_id, st |-> "constructed", created |-> Collaborators]

\* __init__: CHAINS.get(chain_id), ValueError if None, else create everything
init(chain_id) ==
    IF chain_id \notin DOMAIN CHAINS
    THEN [chain_id |-> chain_id, st |-> "ValueError", created |-> {}]
    ELSE [chain_id |-> chain_id, st |-> "constructed", created |-> Collaborators]

\* a client constructed for Base; get_amount_out not called directly
Init ==
    /\ Fresh
    /\ ctor = init(BASE.chain_id)
    /\ eng_call = None
    /\ eng_result = None

(* ---------------------------- refresh ---------------------------------- *)

RECURSIVE new_pairs(_)
\* new_pairs after the for-loop of _on_new_block over result.pairs
new_pairs(pairs) ==
    IF pairs = <<>>
    THEN <<>>
    ELSE LET raw == Head(pairs)
         IN <<<<raw.pair.base_token, raw.pair.quote_token>>>>
                \o new_pairs(Tail(pairs))

RECURSIVE new_dirs_sides_swapped(_, _)
\* a for-loop that stores the ask probes under (base, quote) and the bid probes
\* under (quote, base)
new_dirs_sides_swapped(pairs, acc) ==
    IF pairs = <<>>
    THEN acc
    ELSE LET raw == Head(pairs)
             base == raw.pair.base_token
             quote == raw.pair.quote_token
             asks == build_direction_book(base, quote, raw.ask_probes,
                                          raw.balance_base, raw.balance_quote)
             bids == build_direction_book(quote, base, raw.bid_probes,
                                          raw.balance_quote, raw.balance_base)
         IN new_dirs_sides_swapped(Tail(pairs),
                (<<bids.from_token, bids.to_token>> :> bids)
                   @@ (<<asks.from_token, asks.to_token>> :> asks) @@ acc)

RECURSIVE new_dirs(_, _)
\* new_dirs after the for-loop of _on_new_block over pairs, starting from acc;
\* a later assignment to a key replaces an earlier one
new_dirs(pairs, acc) ==
    IF pairs = <<>>
    THEN acc
    ELSE LET raw == Head(pairs)
             base == raw.pair.base_token
             quote == raw.pair.quote_token
             asks == build_direction_book(quote, base, raw.ask_probes,
                                          raw.balance_quote, raw.balance_base)
             bids == build_direction_book(base, quote, raw.bid_probes,
                                          raw.balance_base, raw.balance_quote)
             with_asks == (<<asks.from_token, asks.to_token>> :> asks) @@ acc
             with_bids == (<<bids.from_token, bids.to_token>> :> bids) @@ with_asks
         IN new_dirs(Tail(pairs), with_bids)

\* publish with the timestamp assignment left out
publish_torn(result) ==
    [directions |-> new_dirs(result.pairs, EmptyDirs),
     pair_keys |-> new_pairs(result.pairs),
     current_block |-> result.block_number,
     block_timestamp |-> block_timestamp,
     initialized |-> TRUE]

\* publish without the event's set()
publish_without_event(result) ==
    [directions |-> new_dirs(result.pairs, EmptyDirs),
     pair_keys |-> new_pairs(result.pairs),
     current_block |-> result.block_number,
     block_timestamp |-> result.block_timestamp,
     initialized |-> initialized]

\* the four assignments and the event's set() that end _on_new_block
publish(result) ==
    [directions |-> new_dirs(result.pairs, EmptyDirs),
     pair_keys |-> new_pairs(result.pairs),
     current_block |-> result.block_number,
     block_timestamp |-> result.block_timestamp,
     initialized |-> TRUE]

\* no gate: every fetched result is applied
never_stale(block_number, result, cur) == FALSE

\* the gate with < for <=: a duplicate block number is applied again
is_stale_strict(block_number, result, cur) ==
    result.block_number < cur.current_block

\* the gate on the notification's block number instead of the result's
is_stale_by_notification(block_number, result, cur) ==
    block_number <= cur.current_block

\* the staleness gate of _on_new_block(block_number) for the fetched result
is_stale(block_number, result, cur) == result.block_number <= cur.current_block

\* the new directions merged into the old mapping instead of replacing it
on_new_block_merged(block_number, result, cur) ==
    IF is_stale(block_number, result, cur)
    THEN cur
    ELSE [publish(result) EXCEPT
              !.directions = new_dirs(result.pairs, cur.directions)]

\* _on_new_block(block_number) from the return of the fetch to its end: the
\* fields of the client after it
on_new_block_fetched(block_number, result, cur) ==
    IF is_stale(block_number, result, cur) THEN cur ELSE publish(result)

\* a failed fetch drops the snapshot
on_new_block_failed_clears(block_number, cur) ==
    [cur EXCEPT !.directions = EmptyDirs, !.pair_keys = <<>>]

\* a failed fetch sets the event
on_new_block_failed_sets_event(block_number, cur) ==
    [cur EXCEPT !.initialized = TRUE]

\* _on_new_block(block_number) when the fetch raises: it logs and returns
on_new_block_failed(block_number, cur) == cur

SetPublished(next) ==
    /\ directions' = next.directions
    /\ pair_keys' = next.pair_keys
    /\ current_block' = next.current_block
    /\ block_timestamp' = next.block_timestamp
    /\ initialized' = next.initialized

\* task t's fetch returns resp; the rest of _on_new_block runs without an await
OnNewBlockFetched(t, resp) ==
    /\ tasks[t].st = "fetching"
    /\ LET result == fetch_all_orderbooks(resp)
           n == tasks[t].block_number
       IN /\ SetPublished(on_new_block_fetched(n, result, Published))
          /\ tasks' = [tasks EXCEPT ![t] =
                          [st |-> IF is_stale(n, result, Published)
                                  THEN "stale" ELSE "published",
                           block_number |-> 0, result |-> result]]
    /\ logged' = t
    /\ last_quote' = NoQuote
    /\ UNCHANGED <<ctor, engine, listener, start_pc, stop_pc>>

\* task t's fetch raises; _on_new_block catches it, logs and returns
OnNewBlockFetchFailed(t) ==
    /\ tasks[t].st = "fetching"
    /\ SetPublished(on_new_block_failed(tasks[t].block_number, Published))
    /\ tasks' = [tasks EXCEPT ![t] =
                    [st |-> "failed", block_number |-> 0, result |-> None]]
    /\ logged' = t
    /\ last_quote' = NoQuote
    /\ UNCHANGED <<ctor, engine, listener, start_pc, stop_pc>>

\* a cancelled refresh that had assigned the block number before it unwound
on_new_block_cancelled_partial(block_number, cur) ==
    [cur EXCEPT !.current_block = block_number]

\* _on_new_block when CancelledError is thrown in at its await of the fetch:
\* neither except Exception clause catches it and nothing is assigned
on_new_block_cancelled(block_number, cur) == cur

\* task t is cancelled while it awaits its fetch (by the event loop shutting
\* down or by any holder of the task): it ends without a log record
OnNewBlockCancelled(t) ==
    /\ tasks[t].st = "fetching"
    /\ SetPublished(on_new_block_cancelled(tasks[t].block_number, Published))
    /\ tasks' = [tasks EXCEPT ![t] =
                    [st |-> "cancelled", block_number |-> 0, result |-> None]]
    /\ last_quote' = NoQuote
    /\ UNCHANGED <<ctor, engine, listener, logged, start_pc, stop_pc>>

(* ---------------------------- quote ------------------------------------ *)

\* the lookup on the strings as passed, without to_checksum_address
get_direction_raw(from_token, to_token) ==
    IF <<from_token, to_token>> \in DOMAIN directions
    THEN directions[<<from_token, to_token>>]
    ELSE None

get_direction(from_token, to_token) ==
    LET f == to_checksum_address(from_token)
        t == to_checksum_address(to_token)
    IN IF f = InvalidAddress \/ t = InvalidAddress
       THEN Raised("ValueError")
       ELSE IF <<f, t>> \in DOMAIN directions THEN directions[<<f, t>>] ELSE None

\* quote() stamping its result with the snapshot's timestamp
quote_stamped_with_timestamp(from_token, to_token, amount_in) ==
    LET direction == get_direction(from_token, to_token)
    IN IF direction = Raised("ValueError")
       THEN direction
       ELSE IF direction = None
            THEN None
            ELSE get_amount_out(direction, amount_in, block_timestamp)

quote(from_token, to_token, amount_in) ==
    LET direction == get_direction(from_token, to_token)
    IN IF direction = Raised("ValueError")
       THEN direction
       ELSE IF direction = None
            THEN None
            ELSE get_amount_out(direction, amount_in, current_block)

\* a quote() that starts a refresh of its own when a reader calls it
Quote_refreshing(from_token, to_token, amount_in) ==
    /\ Len(tasks) < MaxTasks
    /\ last_quote' = [called |-> TRUE, from_token |-> from_token,
                      to_token |-> to_token, amount_in |-> amount_in,
                      returned |-> quote(from_token, to_token, amount_in)]
    /\ tasks' = Append(tasks, [st |-> "fetching", block_number |-> 1,
                               result |-> None])
    /\ UNCHANGED <<ctor, engine, client, listener, start_pc, stop_pc, logged>>

\* a reader calls quote(); it runs to its return without an await
Quote(from_token, to_token, amount_in) ==
    /\ last_quote' = [called |-> TRUE, from_token |-> from_token,
                      to_token |-> to_token, amount_in |-> amount_in,
                      returned |-> quote(from_token, to_token, amount_in)]
    /\ UNCHANGED <<ctor, engine, client, listener, tasks, logged, start_pc, stop_pc>>

(* ---------------------------- listener --------------------------------- *)

\* _ws_loop is suspended at one of its awaits
Alive == {"connecting", "subscribing", "listening", "sleeping"}

\* _ws_loop after its except clause for (ConnectionClosed, OSError)
after_connection_lost == IF running THEN "sleeping" ELSE "finished"

\* _ws_loop at its while test
loop_test == IF running THEN "connecting" ELSE "finished"

WsStep(from, to) ==
    /\ ws_task = from
    /\ ws_task' = to
    /\ last_quote' = NoQuote
    /\ UNCHANGED <<ctor, engine, client, running, tasks, logged, start_pc, stop_pc>>

\* websockets.connect succeeds; the subscribe message is sent
WsConnected == WsStep("connecting", "subscribing")

\* websockets.connect raises OSError
WsConnectOSError == WsStep("connecting", after_connection_lost)

\* websockets.connect raises InvalidHandshake or InvalidURI, which no clause catches
WsConnectRejected == WsStep("connecting", "failed")

\* the subscription is acknowledged
WsSubscribed == WsStep("subscribing", "listening")

\* the reply carries "error": RuntimeError, which no clause catches
WsSubscribeError == WsStep("subscribing", "failed")

\* the connection drops during the handshake
WsSubscribeClosed == WsStep("subscribing", after_connection_lost)

\* a listener that awaits the callback instead of creating a task for it: the
\* next message is taken only once no refresh is awaiting its fetch
WsNewHead_awaiting(n) ==
    /\ ws_task = "listening"
    /\ Len(tasks) < MaxTasks
    /\ \A t \in 1..Len(tasks) : tasks[t].st # "fetching"
    /\ tasks' = Append(tasks, [st |-> "fetching", block_number |-> n, result |-> None])
    /\ last_quote' = NoQuote
    /\ UNCHANGED <<ctor, engine, client, listener, logged, start_pc, stop_pc>>

\* a newHeads message for block n: create_task(_run_callback(on_block, n)); the
\* new task runs up to its await of the fetch
WsNewHead(n) ==
    /\ ws_task = "listening"
    /\ Len(tasks) < MaxTasks
    /\ tasks' = Append(tasks, [st |-> "fetching", block_number |-> n, result |-> None])
    /\ last_quote' = NoQuote
    /\ UNCHANGED <<ctor, engine, client, listener, logged, start_pc, stop_pc>>

\* a message that json.loads, msg["params"] or int(block_hex, 16) rejects
WsBadMessage == WsStep("listening", "failed")

\* the connection closes with an error while iterating
WsClosedError == WsStep("listening", after_connection_lost)

\* the connection closes normally: the async-for ends and the while loop repeats
WsClosedOK == WsStep("listening", loop_test)

\* asyncio.sleep(WS_RECONNECT_DELAY_SECONDS) returns
WsSleepDone == WsStep("sleeping", loop_test)

\* the CancelledError of stop() reaches _ws_loop at its await
WsCancelled == WsStep("cancelling", "cancelled")

(* ---------------------------- lifecycle -------------------------------- *)

\* start(): BlockListener.start, then the wait for the event begins.  The
\* caller starts a client whose listener is not running.
StartCall ==
    /\ ~running
    /\ start_pc # "waiting"
    /\ stop_pc # "awaiting"
    /\ running' = TRUE
    /\ ws_task' = "connecting"
    /\ start_pc' = "waiting"
    /\ stop_pc' = "idle"
    /\ last_quote' = NoQuote
    /\ UNCHANGED <<ctor, engine, client, tasks, logged>>

\* the event is set: wait_for returns and start() with it
StartReturn ==
    /\ start_pc = "waiting"
    /\ initialized
    /\ start_pc' = "returned"
    /\ last_quote' = NoQuote
    /\ UNCHANGED <<ctor, engine, client, listener, tasks, logged, stop_pc>>

\* a start() that stops the listener it started when the wait times out
StartTimeout_stopping ==
    /\ start_pc = "waiting"
    /\ ~initialized
    /\ start_pc' = "timeout"
    /\ running' = FALSE
    /\ ws_task' = IF ws_task \in Alive THEN "cancelling" ELSE ws_task
    /\ last_quote' = NoQuote
    /\ UNCHANGED <<ctor, engine, client, tasks, logged, stop_pc>>

\* the timeout expires with the event unset: wait_for raises TimeoutError
StartTimeout ==
    /\ start_pc = "waiting"
    /\ ~initialized
    /\ start_pc' = "timeout"
    /\ last_quote' = NoQuote
    /\ UNCHANGED <<ctor, engine, client, listener, tasks, logged, stop_pc>>

\* a stop() that also clears the readiness event
StopCall_resetting ==
    /\ running
    /\ start_pc \in {"returned", "timeout"}
    /\ stop_pc = "idle"
    /\ running' = FALSE
    /\ ws_task' = IF ws_task \in Alive THEN "cancelling" ELSE ws_task
    /\ stop_pc' = "awaiting"
    /\ initialized' = FALSE
    /\ last_quote' = NoQuote
    /\ UNCHANGED <<ctor, engine, directions, pair_keys, current_block,
                   block_timestamp, tasks, logged, start_pc>>

\* stop(): BlockListener.stop up to its await of the cancelled task
StopCall ==
    /\ running
    /\ start_pc \in {"returned", "timeout"}
    /\ stop_pc = "idle"
    /\ running' = FALSE
    /\ ws_task' = IF ws_task \in Alive THEN "cancelling" ELSE ws_task
    /\ stop_pc' = "awaiting"
    /\ last_quote' = NoQuote
    /\ UNCHANGED <<ctor, engine, client, tasks, logged, start_pc>>

\* the awaited task ended cancelled: _task = None and stop() returns
StopReturn ==
    /\ stop_pc = "awaiting"
    /\ ws_task \in {"cancelled", "finished"}
    /\ ws_task' = "none"
    /\ stop_pc' = "returned"
    /\ last_quote' = NoQuote
    /\ UNCHANGED <<ctor, engine, client, running, tasks, logged, start_pc>>

\* the awaited task had ended with an exception: stop() re-raises it
StopRaise ==
    /\ stop_pc = "awaiting"
    /\ ws_task = "failed"
    /\ stop_pc' = "raised"
    /\ last_quote' = NoQuote
    /\ UNCHANGED <<ctor, engine, client, listener, tasks, logged, start_pc>>

(* ---------------------------- specification ---------------------------- *)

Next ==
    \/ StartCall
    \/ StartReturn
    \/ StartTimeout
    \/ StopCall
    \/ StopReturn
    \/ StopRaise
    \/ WsConnected
    \/ WsConnectOSError
    \/ WsConnectRejected
    \/ WsSubscribed
    \/ WsSubscribeError
    \/ WsSubscribeClosed
    \/ \E n \in 1..MaxBlock : WsNewHead(n)
    \/ WsBadMessage
    \/ WsClosedError
    \/ WsClosedOK
    \/ WsSleepDone
    \/ WsCancelled
    \/ \E t \in 1..Len(tasks), resp \in Responses : OnNewBlockFetched(t, resp)
    \/ \E t \in 1..Len(tasks) : OnNewBlockFetchFailed(t)
    \/ \E d \in QuoteDirections, a \in QuoteAmounts : Quote(d[1], d[2], a)

Spec == Init /\ [][Next]_vars

\* the same client where a refresh task may also be cancelled at its await
NextCancel ==
    \/ Next
    \/ \E t \in 1..Len(tasks) : OnNewBlockCancelled(t)

SpecCancel == Init /\ [][NextCancel]_vars

\* the client with a server that is there: asyncio.sleep returns, and a
\* connection or subscription attempted again and again succeeds at last
SpecLive ==
    /\ Init
    /\ [][Next]_vars
    /\ WF_vars(WsSleepDone)
    /\ SF_vars(WsConnected)
    /\ SF_vars(WsSubscribed)

(* ---------------------------- construction ----------------------------- *)

\* ElfomoFiClient(rpc_url, ws_url, chain_id) runs: on success the fields hold
\* their initial values, on ValueError there is no object
Construct ==
    /\ ctor.st = "pending"
    /\ ctor' = init(ctor.chain_id)
    /\ IF ctor'.st = "constructed"
       THEN /\ directions' = EmptyDirs
            /\ pair_keys' = <<>>
            /\ current_block' = 0
            /\ block_timestamp' = 0
            /\ initialized' = FALSE
       ELSE UNCHANGED client
    /\ last_quote' = NoQuote
    /\ UNCHANGED <<engine, listener, tasks, logged, start_pc, stop_pc>>

InitConstruct ==
    /\ Fresh
    /\ ctor \in {Pending(c) : c \in ChainIds}
    /\ eng_call = None
    /\ eng_result = None

\* methods are called on a constructed client only
NextConstruct ==
    \/ Construct
    \/ ctor.st = "constructed" /\ Next

SpecConstruct == InitConstruct /\ [][NextConstruct]_vars

(* ---------------------------- engine called directly -------------------- *)

\* the longest probe list, the largest amount_in and amount_out of a probe
MaxProbes == 3
MaxAmountIn == 2
MaxAmountOut == 2

Points ==
    {ProbePoint(ain, aout) : ain \in 0..MaxAmountIn, aout \in 0..MaxAmountOut}

\* every probe list up to the bounds: unsorted, with duplicates, with zeros
BoundedCurves == UNION {[1..n -> Points] : n \in 0..MaxProbes}

BoundedAmounts == (-1)..(MaxAmountIn + 1)

ExampleCurves ==
    { <<ProbePoint(100, 200), ProbePoint(300, 500)>>,
      <<ProbePoint(100, 200), ProbePoint(100, 250)>> }

ExampleAmounts == {50, 100, 200, 1000}

EngineCall(probes, amount_in) ==
    [direction |-> DirectionBook(WETH, USDC, probes, 0, 0),
     amount_in |-> amount_in, block_number |-> 1]

EngineCalls ==
    {EngineCall(c, a) : c \in BoundedCurves, a \in BoundedAmounts}
    \cup {EngineCall(c, a) : c \in ExampleCurves, a \in ExampleAmounts}

InitEngine ==
    /\ Fresh
    /\ ctor = Pending(BASE.chain_id)
    /\ eng_call \in EngineCalls
    /\ eng_result = None

\* get_amount_out(direction, amount_in, block_number) runs to its return
GetAmountOut ==
    /\ eng_call # None
    /\ eng_result = None
    /\ eng_result' = get_amount_out(eng_call.direction, eng_call.amount_in,
                                    eng_call.block_number)
    /\ UNCHANGED <<client, listener, tasks, logged, start_pc, stop_pc,
                   last_quote, ctor, eng_call>>

NextEngine == GetAmountOut

SpecEngine == InitEngine /\ [][NextEngine]_vars

(* ---------------------------- properties ------------------------------ *)

TaskIds == 1..Len(tasks)

\* tasks whose fetch has returned a result
DoneTasks == {t \in TaskIds : tasks[t].st \in {"published", "stale"}}

\* the fetch results that have completed successfully so far
Completed == {tasks[t].result : t \in DoneTasks}

InFlight == {t \in TaskIds : tasks[t].st = "fetching"}

\* this step ends task t's wait for its fetch
Completes(t) == tasks[t].st = "fetching" /\ tasks'[t].st # "fetching"

MaxOf(S) == CHOOSE x \in S : \A y \in S : y <= x

\* the four fields a reader sees
Snapshot ==
    [directions |-> directions, pair_keys |-> pair_keys,
     current_block |-> current_block, block_timestamp |-> block_timestamp]

InitialSnapshot ==
    [directions |-> EmptyDirs, pair_keys |-> <<>>,
     current_block |-> 0, block_timestamp |-> 0]

\* the snapshot that fetch result r stands for
SnapshotOf(r) ==
    [directions |-> new_dirs(r.pairs, EmptyDirs), pair_keys |-> new_pairs(r.pairs),
     current_block |-> r.block_number, block_timestamp |-> r.block_timestamp]

\* C1: over any interleaving of refresh completions, current_block never
\* decreases; a step that publishes strictly increases it; and a result with a
\* block number below the published one, arriving later, leaves it as it is.
C1_BlockNeverDecreases ==
    [][ /\ current_block' >= current_block
        /\ \A t \in TaskIds :
              /\ Completes(t) /\ tasks'[t].st = "published"
                    => current_block' > current_block
              /\ Completes(t) /\ tasks'[t].st \in {"published", "stale"}
                              /\ tasks'[t].result.block_number < current_block
                    => current_block' = current_block ]_vars

\* C1 witness: a result with a lower block number arrived after a higher one
\* had been published, and was the last to arrive.
C1_Witness ==
    /\ logged # 0
    /\ tasks[logged].st = "stale"
    /\ tasks[logged].result.block_number < current_block

\* C2: when the results of block b and of block b+1 have both completed, in
\* either order, and every other completed result is older than b, the
\* published state is exactly the snapshot of the b+1 result.
C2_RaceEndsAtHigherBlock ==
    \A t1, t2 \in DoneTasks :
        /\ tasks[t2].result.block_number = tasks[t1].result.block_number + 1
        /\ \A t3 \in DoneTasks \ {t1, t2} :
              tasks[t3].result.block_number < tasks[t1].result.block_number
        => /\ Snapshot = SnapshotOf(tasks[t2].result)
           /\ initialized

\* C2 witness: the refresh notified first got block b and completed last, after
\* the refresh notified second had published block b+1 with other pairs.
C2_Witness ==
    /\ Len(tasks) = 2
    /\ tasks[1].st = "stale"
    /\ tasks[2].st = "published"
    /\ logged = 1
    /\ tasks[2].result.block_number = tasks[1].result.block_number + 1
    /\ tasks[1].result.pairs # tasks[2].result.pairs

\* C3: a refresh whose fetched block number is at most the published one
\* changes none of directions, pair list, current_block, block_timestamp and
\* readiness.
C3_StaleLeavesStateUnchanged ==
    [][ \A t \in TaskIds :
            /\ Completes(t)
            /\ tasks'[t].st \in {"published", "stale"}
            /\ tasks'[t].result.block_number <= current_block
            => UNCHANGED client ]_vars

\* C3 witness: the last refresh to complete carried the published block number
\* again, with other content than the published one, and was discarded.
C3_Witness ==
    /\ logged # 0
    /\ tasks[logged].st = "stale"
    /\ tasks[logged].result.block_number = current_block
    /\ SnapshotOf(tasks[logged].result) # Snapshot

\* C4: at every moment current_block is the largest block number among the
\* fetch results completed so far (0 if none), and the published mapping is
\* the one built from a completed result that carries that block number.
C4_PublishedIsHighestCompleted ==
    /\ current_block = MaxOf({r.block_number : r \in Completed} \cup {0})
    /\ IF Completed = {}
       THEN directions = EmptyDirs
       ELSE \E r \in Completed :
                /\ r.block_number = current_block
                /\ directions = new_dirs(r.pairs, EmptyDirs)

\* C4 witness: two refreshes were in flight at once; the one notified last has
\* published a block, and the one notified first is still in flight for a
\* notification of another block number than the published one.
C4_Witness ==
    /\ Len(tasks) >= 2
    /\ tasks[1].st = "fetching"
    /\ tasks[2].st = "published"
    /\ tasks[1].block_number # current_block
    /\ current_block = tasks[2].result.block_number

\* C5: at every point where a reader can run, the four published fields are
\* those of one successful fetch result, or all four are the initial ones.
C5_NoTornSnapshot ==
    \/ ~initialized /\ Snapshot = InitialSnapshot
    \/ \E r \in Completed : Snapshot = SnapshotOf(r)

\* C5 witness: a second publish has replaced an earlier snapshot that differed
\* from it in every field.
C5_Witness ==
    \E t1, t2 \in TaskIds :
        /\ tasks[t1].st = "published"
        /\ tasks[t2].st = "published"
        /\ logged = t2
        /\ LET old == SnapshotOf(tasks[t1].result)
           IN /\ old.directions # directions
              /\ old.pair_keys # pair_keys
              /\ old.current_block # current_block
              /\ old.block_timestamp # block_timestamp

\* C6: a refresh whose fetch fails publishes nothing: the published fields and
\* readiness, the listener, and a pending start() or stop() are as before, and
\* quote() returns afterwards what it returned before.
C6_FetchFailureContained ==
    [][ \A t \in TaskIds :
            Completes(t) /\ tasks'[t].st = "failed"
            => /\ UNCHANGED <<client, listener, start_pc, stop_pc>>
               /\ \A d \in QuoteDirections, a \in QuoteAmounts :
                      quote(d[1], d[2], a)' = quote(d[1], d[2], a) ]_vars

\* C6 witness: the last refresh to end failed while a snapshot with curves was
\* published.
C6_Witness ==
    /\ logged # 0
    /\ tasks[logged].st = "failed"
    /\ initialized
    /\ DOMAIN directions # {}

\* C7 (as claimed): once stop() has returned, no refresh is still in flight.
C7_NoRefreshInFlightAfterStop ==
    stop_pc = "returned" => InFlight = {}

\* C7 (as claimed): no snapshot is published after stop() has returned.
C7_NoPublishAfterStop ==
    [][ stop_pc = "returned" /\ stop_pc' = "returned" => UNCHANGED client ]_vars

\* C8: the manager is Uninitialized, with the initial fields, exactly as long
\* as no publish has happened and Ready from then on; a failed or stale
\* refresh leaves readiness as it was, and Ready never reverts.
C8_TwoStates ==
    /\ [](/\ initialized <=> (\E t \in TaskIds : tasks[t].st = "published")
          /\ ~initialized => Snapshot = InitialSnapshot
          /\ initialized => current_block > 0)
    /\ [][ /\ initialized => initialized'
           /\ \A t \in TaskIds :
                 Completes(t) /\ tasks'[t].st \in {"failed", "stale"}
                 => initialized' = initialized ]_vars

\* C8 witness: the manager is Ready on a published snapshot without pairs, and
\* the last refresh to end was a stale one.
C8_Witness ==
    /\ initialized
    /\ pair_keys = <<>>
    /\ logged # 0
    /\ tasks[logged].st = "stale"

\* C9: start() returns only when a snapshot has been published; a start() that
\* ends while none has been ends with the timeout error; and a failing fetch
\* does not end a waiting start().
C9_StartReturnsOnlyWhenReady ==
    /\ [](start_pc = "returned"
            => initialized /\ (\E t \in TaskIds : tasks[t].st = "published"))
    /\ [][ /\ start_pc = "waiting" /\ start_pc' # "waiting" /\ ~initialized
              => start_pc' = "timeout"
           /\ \A t \in TaskIds :
                 Completes(t) /\ tasks'[t].st = "failed" => start_pc' = start_pc
         ]_vars

\* C9 witness: start() ended with the timeout error, a fetch has failed, and
\* the manager is not Ready.
C9_Witness ==
    /\ start_pc = "timeout"
    /\ ~initialized
    /\ \E t \in TaskIds : tasks[t].st = "failed"

ValidAddress(s) == to_checksum_address(s) # InvalidAddress

\* the current snapshot holds a curve for the direction the strings name
HasCurve(from_token, to_token) ==
    /\ ValidAddress(from_token)
    /\ ValidAddress(to_token)
    /\ <<to_checksum_address(from_token), to_checksum_address(to_token)>>
           \in DOMAIN directions

\* C10 (as claimed): quote() never raises, returns None exactly when the
\* current snapshot has no curve for the direction, and otherwise a QuoteResult.
C10_QuoteNoneIffNoCurve ==
    last_quote.called
    => /\ last_quote.returned # Raised("ValueError")
       /\ last_quote.returned = None
             <=> ~HasCurve(last_quote.from_token, last_quote.to_token)

\* C10 (amended): for two well-formed addresses in any letter case, quote()
\* returns None exactly when the current snapshot has no curve for the
\* direction (so always while Uninitialized), and otherwise the QuoteResult of
\* the engine for that curve; for a malformed address it raises.
C10_QuoteNoneIffNoCurveForAddresses ==
    last_quote.called
    => LET f == last_quote.from_token
           t == last_quote.to_token
           ret == last_quote.returned
       IN IF ValidAddress(f) /\ ValidAddress(t)
          THEN /\ ret = None <=> ~HasCurve(f, t)
               /\ ~initialized => ret = None
               /\ HasCurve(f, t)
                     => LET curve == directions[<<to_checksum_address(f),
                                                  to_checksum_address(t)>>]
                        IN /\ ret = get_amount_out(curve, last_quote.amount_in,
                                                   current_block)
                           /\ ret.from_token = to_checksum_address(f)
                           /\ ret.to_token = to_checksum_address(t)
                           /\ ret.amount_in = last_quote.amount_in
          ELSE ret = Raised("ValueError")

\* C10 witness: quote() returned None for two well-formed addresses while the
\* manager was Ready and held curves for other directions.
C10_Witness ==
    /\ last_quote.called
    /\ last_quote.returned = None
    /\ initialized
    /\ DOMAIN directions # {}

\* the value quote() returned is a QuoteResult
ReturnedQuote ==
    /\ last_quote.called
    /\ last_quote.returned # None
    /\ last_quote.returned # Raised("ValueError")

\* the key quote() looked up
QuotedKey ==
    <<to_checksum_address(last_quote.from_token),
      to_checksum_address(last_quote.to_token)>>

\* C11: whatever refreshes completed before the query and in whatever order,
\* a QuoteResult returned by quote() carries the block number of one completed
\* fetch result whose snapshot is the published one, and its amount_out is the
\* engine's value on the curve of that same snapshot.
C11_QuoteStampedWithItsSnapshot ==
    ReturnedQuote
    => \E r \in Completed :
          /\ Snapshot = SnapshotOf(r)
          /\ last_quote.returned.block_number = r.block_number
          /\ QuotedKey \in DOMAIN SnapshotOf(r).directions
          /\ last_quote.returned.amount_out =
                get_amount_out(SnapshotOf(r).directions[QuotedKey],
                               last_quote.amount_in, r.block_number).amount_out

\* C11 witness: after a first snapshot was replaced by that of a later block,
\* quote() returned a non-zero amount stamped with the later block.
C11_Witness ==
    /\ ReturnedQuote
    /\ last_quote.returned.amount_out > 0
    /\ \E t \in DoneTasks :
          /\ tasks[t].st = "published"
          /\ tasks[t].result.block_number < last_quote.returned.block_number

\* C12: a step in which quote() is called leaves the published fields, the
\* readiness event, the listener and every refresh task as they were (no fetch
\* is invoked, no refresh is started), and whenever the snapshot holds the
\* curve asked for it returns a QuoteResult, whatever became of later fetches.
C12_QuoteOffTheNetworkPath ==
    [][ last_quote'.called
        => /\ UNCHANGED <<client, listener, tasks, logged, start_pc, stop_pc>>
           /\ HasCurve(last_quote'.from_token, last_quote'.to_token)
                 => /\ last_quote'.returned # None
                    /\ last_quote'.returned # Raised("ValueError")
                    /\ last_quote'.returned.block_number = current_block ]_vars

\* C12 witness: quote() returned a QuoteResult from the snapshot after the
\* latest refresh had failed to fetch and the listener had been stopped.
C12_Witness ==
    /\ ReturnedQuote
    /\ logged # 0
    /\ tasks[logged].st = "failed"
    /\ ~running

(* properties of get_amount_out called directly (SpecEngine) *)

EngProbes == eng_call.direction.probes

EngReturned == eng_call # None /\ eng_result # None

StrictlyIncreasing(probes) ==
    \A i \in 1..(Len(probes) - 1) : probes[i].amount_in < probes[i + 1].amount_in

NonDecreasing(probes) ==
    \A i \in 1..(Len(probes) - 1) : probes[i].amount_in <= probes[i + 1].amount_in

\* the four steps of the reference algorithm, with floor division
RefAmountOut(probes, amount_in) ==
    IF amount_in <= 0 \/ probes = <<>>
    THEN 0
    ELSE IF amount_in <= probes[1].amount_in
         THEN (amount_in * probes[1].amount_out) \div probes[1].amount_in
         ELSE LET S == {i \in 1..(Len(probes) - 1) :
                           amount_in <= probes[i + 1].amount_in}
              IN IF S = {}
                 THEN probes[Len(probes)].amount_out
                 ELSE LET i == CHOOSE j \in S : \A k \in S : j <= k
                          lower == probes[i]
                          upper == probes[i + 1]
                      IN lower.amount_out
                           + (((amount_in - lower.amount_in)
                                  * (upper.amount_out - lower.amount_out))
                               \div (upper.amount_in - lower.amount_in))

\* C13: for every curve with strictly increasing amount_in and every integer
\* amount_in, get_amount_out returns a QuoteResult whose amount_out is the value
\* of the four-step reference algorithm; on the curve [(100,200),(300,500)]
\* that is 100 at 50, 350 at 200 and 500 at 1000.
C13_MatchesReferenceAlgorithm ==
    EngReturned /\ StrictlyIncreasing(EngProbes)
    => /\ eng_result = QuoteResult(eng_call.direction.from_token,
                                   eng_call.direction.to_token,
                                   eng_call.amount_in,
                                   RefAmountOut(EngProbes, eng_call.amount_in),
                                   eng_call.block_number)
       /\ EngProbes = <<ProbePoint(100, 200), ProbePoint(300, 500)>>
             => /\ eng_call.amount_in = 50 => eng_result.amount_out = 100
                /\ eng_call.amount_in = 200 => eng_result.amount_out = 350
                /\ eng_call.amount_in = 1000 => eng_result.amount_out = 500

\* C13 witness: the curve [(100,200),(300,500)] was asked for 200 and
\* get_amount_out returned 350, interpolated between its two points.
C13_Witness ==
    /\ EngReturned
    /\ EngProbes = <<ProbePoint(100, 200), ProbePoint(300, 500)>>
    /\ eng_call.amount_in = 200
    /\ eng_result.amount_out = 350

\* points i and i+1 of the curve have the amount_in that is asked for
ZeroWidthAt(probes, i, amount_in) ==
    /\ i \in 1..(Len(probes) - 1)
    /\ probes[i].amount_in = amount_in
    /\ probes[i + 1].amount_in = amount_in

\* the first point of the curve with that amount_in
FirstAt(probes, amount_in) ==
    CHOOSE j \in 1..Len(probes) :
        /\ probes[j].amount_in = amount_in
        /\ \A k \in 1..(j - 1) : probes[k].amount_in # amount_in

\* C14 (as claimed): on a curve with non-decreasing amount_in, asking for the
\* positive amount_in that two consecutive points share does not raise and
\* returns the amount_out of the earlier of those two points.
C14_ZeroWidthReturnsLowerPoint ==
    EngReturned /\ NonDecreasing(EngProbes) /\ eng_call.amount_in > 0
    => \A i \in 1..Len(EngProbes) :
          ZeroWidthAt(EngProbes, i, eng_call.amount_in)
          => /\ eng_result # Raised("ZeroDivisionError")
             /\ eng_result.amount_out = EngProbes[i].amount_out

\* C14 (amended): on a curve with non-decreasing amount_in, asking for the
\* positive amount_in that two or more consecutive points share does not raise
\* and returns the amount_out of the first point of the curve with that
\* amount_in.
C14_ZeroWidthReturnsFirstPoint ==
    EngReturned /\ NonDecreasing(EngProbes) /\ eng_call.amount_in > 0
    => \A i \in 1..Len(EngProbes) :
          ZeroWidthAt(EngProbes, i, eng_call.amount_in)
          => /\ eng_result # Raised("ZeroDivisionError")
             /\ eng_result.amount_out =
                   EngProbes[FirstAt(EngProbes, eng_call.amount_in)].amount_out

\* C14 witness: the curve [(100,200),(100,250)] was asked for 100 and
\* get_amount_out returned 200.
C14_Witness ==
    /\ EngReturned
    /\ EngProbes = <<ProbePoint(100, 200), ProbePoint(100, 250)>>
    /\ eng_call.amount_in = 100
    /\ eng_result.amount_out = 200

\* C20: for every probe list, unsorted or with duplicate or zero amount_in,
\* and every amount_in, get_amount_out does not divide by zero: a segment
\* selected for interpolation has lower.amount_in < amount_in <= upper.amount_in,
\* so delta_in > 0 and 0 < excess <= delta_in, and the origin segment is taken
\* only with first.amount_in >= amount_in > 0.
C20_NeverDividesByZero ==
    EngReturned
    => /\ eng_result # Raised("ZeroDivisionError")
       /\ eng_call.amount_in > 0 /\ EngProbes # <<>>
             => LET site == calc_quote_site(EngProbes, eng_call.amount_in)
                    amount_in == eng_call.amount_in
                IN /\ site.stmt \in {"segment", "segment_zero"}
                         => LET lower == EngProbes[site.i]
                                upper == EngProbes[site.i + 1]
                                delta_in == upper.amount_in - lower.amount_in
                                excess == amount_in - lower.amount_in
                            IN /\ lower.amount_in < amount_in
                               /\ amount_in <= upper.amount_in
                               /\ delta_in > 0
                               /\ 0 < excess
                               /\ excess <= delta_in
                   /\ site.stmt \in {"origin", "origin_zero"}
                         => /\ EngProbes[1].amount_in >= amount_in
                            /\ EngProbes[1].amount_in > 0

\* C20 witness: an unsorted probe list with a duplicate and a zero amount_in
\* was asked for an amount that selected a segment for interpolation.
C20_Witness ==
    /\ EngReturned
    /\ ~NonDecreasing(EngProbes)
    /\ \E i \in 1..Len(EngProbes) : EngProbes[i].amount_in = 0
    /\ \E i, j \in 1..Len(EngProbes) :
          i # j /\ EngProbes[i].amount_in = EngProbes[j].amount_in
    /\ eng_call.amount_in > 0
    /\ calc_quote_site(EngProbes, eng_call.amount_in).stmt = "segment"

\* C15: a refresh cancelled while it awaits its fetch ends without assigning
\* any field, and in every state that follows a cancelled refresh the four
\* fields are the initial ones or all four those of one completed fetch result.
C15_CancelledRefreshPublishesNothing ==
    /\ []((\E t \in TaskIds : tasks[t].st = "cancelled")
             => \/ Snapshot = InitialSnapshot
                \/ \E r \in Completed : Snapshot = SnapshotOf(r))
    /\ [][ \A t \in TaskIds :
              Completes(t) /\ tasks'[t].st = "cancelled" => UNCHANGED client ]_vars

\* C15 witness: one refresh has published, and another, notified of a later
\* block, was cancelled while it awaited its fetch.
C15_Witness ==
    \E t1, t2 \in TaskIds :
        /\ tasks[t1].st = "published"
        /\ tasks[t2].st = "cancelled"
        /\ current_block = tasks[t1].result.block_number

(* properties of the constructor (SpecConstruct) *)

\* C16: constructing the client with a chain_id that CHAINS does not hold
\* ends at once in ValueError with no provider, helper, fetcher, listener or
\* state created; such a client never has a listener running, never starts a
\* refresh and never becomes Ready.
C16_UnsupportedChainFailsAtConstruction ==
    /\ [](ctor.chain_id \notin DOMAIN CHAINS
             => /\ ctor.st \in {"pending", "ValueError"}
                /\ ctor.created = {}
                /\ ~running
                /\ ws_task = "none"
                /\ tasks = <<>>
                /\ ~initialized
                /\ Snapshot = InitialSnapshot)
    /\ [][ ctor.chain_id \notin DOMAIN CHAINS /\ ctor.st = "pending"
           => ctor'.st = "ValueError" /\ ctor'.created = {} ]_vars

\* C16 witness: the constructor was called with a chain_id other than Base's
\* and raised ValueError.
C16_Witness ==
    /\ ctor.chain_id # BASE.chain_id
    /\ ctor.st = "ValueError"

(* properties of the published directions (Spec) *)

\* C17: the published snapshot comes from one fetch result, and every pair
\* (base, quote) of its pair list has exactly two entries in directions: under
\* (quote, base) that pair's ask probes with reserves (balance_quote,
\* balance_base), under (base, quote) its bid probes with reserves
\* (balance_base, balance_quote); directions holds nothing else.
C17_TwoDirectionsPerPair ==
    initialized
    => \E t \in DoneTasks :
          LET r == tasks[t].result
              Keys(raw) ==
                  { <<raw.pair.quote_token, raw.pair.base_token>>,
                    <<raw.pair.base_token, raw.pair.quote_token>> }
          IN /\ tasks[t].st = "published"
             /\ r.block_number = current_block
             /\ r.block_timestamp = block_timestamp
             /\ Len(pair_keys) = Len(r.pairs)
             /\ \A i \in 1..Len(r.pairs) :
                   LET raw == r.pairs[i]
                       base_token == raw.pair.base_token
                       quote_token == raw.pair.quote_token
                   IN /\ pair_keys[i] = <<base_token, quote_token>>
                      /\ Keys(raw) \subseteq DOMAIN directions
                      /\ directions[<<quote_token, base_token>>] =
                            [from_token |-> quote_token, to_token |-> base_token,
                             probes |-> raw.ask_probes,
                             from_balance |-> raw.balance_quote,
                             to_balance |-> raw.balance_base]
                      /\ directions[<<base_token, quote_token>>] =
                            [from_token |-> base_token, to_token |-> quote_token,
                             probes |-> raw.bid_probes,
                             from_balance |-> raw.balance_base,
                             to_balance |-> raw.balance_quote]
             /\ DOMAIN directions = UNION {Keys(r.pairs[i]) : i \in 1..Len(r.pairs)}
             /\ Cardinality(DOMAIN directions) = 2 * Len(pair_keys)

\* C17 witness: a snapshot of two pairs is published, with four directions
\* whose ask and bid curves differ.
C17_Witness ==
    /\ initialized
    /\ Len(pair_keys) = 2
    /\ Cardinality(DOMAIN directions) = 4
    /\ directions[<<USDC, WETH>>].probes # directions[<<WETH, USDC>>].probes

(* properties of the listener (Spec) *)

\* C18: a listening _ws_loop can dispatch the next notification whatever the
\* earlier refreshes are doing; the dispatch creates one new task awaiting its
\* fetch and leaves the listener, the client and every earlier task as they
\* were; and a refresh whose fetch raises ends alone, leaving the listener and
\* every other task as they were.
C18_IndependentRefreshTasks ==
    /\ [](ws_task = "listening" /\ Len(tasks) < MaxTasks
             => ENABLED (\E n \in 1..MaxBlock : WsNewHead(n)))
    /\ [][ /\ Len(tasks') = Len(tasks) + 1
              => /\ tasks'[Len(tasks')].st = "fetching"
                 /\ \A t \in TaskIds : tasks'[t] = tasks[t]
                 /\ ws_task = "listening"
                 /\ UNCHANGED <<client, listener>>
           /\ \A t \in TaskIds :
                 Completes(t) /\ tasks'[t].st = "failed"
                 => /\ UNCHANGED <<client, listener>>
                    /\ \A u \in TaskIds \ {t} : tasks'[u] = tasks[u] ]_vars

\* C18 witness: a second notification was dispatched while the first refresh
\* was still awaiting its fetch; the second refresh failed, the first still
\* awaits and the listener is still listening.
C18_Witness ==
    /\ Len(tasks) = 2
    /\ tasks[1].st = "fetching"
    /\ tasks[2].st = "failed"
    /\ ws_task = "listening"

\* C19 (as claimed): while the listener is running, a connection loss that
\* sent _ws_loop into its reconnect delay is followed by a new connection and
\* subscription (or by stop()); a step of _ws_loop that dispatches nothing
\* leaves the client's published fields and readiness as they were; and a
\* stopped listener does not start to connect.
C19_ReconnectsAfterConnectionLoss ==
    /\ (running /\ ws_task = "sleeping") ~> (ws_task = "listening" \/ ~running)
    /\ [][ ws_task' # ws_task => UNCHANGED client ]_vars
    /\ [][ ~running' /\ ws_task # "connecting" => ws_task' # "connecting" ]_vars

\* amount_in strictly increasing and positive, amount_out non-decreasing and
\* non-negative
MonotoneCurve(probes) ==
    /\ StrictlyIncreasing(probes)
    /\ \A i \in 1..Len(probes) :
          probes[i].amount_in > 0 /\ probes[i].amount_out >= 0
    /\ \A i \in 1..(Len(probes) - 1) :
          probes[i].amount_out <= probes[i + 1].amount_out

\* amount_out of get_amount_out on the curve of the call, for another amount
EngOut(amount_in) ==
    get_amount_out(eng_call.direction, amount_in, eng_call.block_number).amount_out

\* C21: on a curve with strictly increasing positive amount_in and
\* non-decreasing non-negative amount_out, the amount_out returned is at least
\* that of every smaller amount_in, is never negative, never exceeds the last
\* point's amount_out, and at a probe point's amount_in is that point's
\* amount_out.
C21_MonotoneOnMonotoneCurves ==
    EngReturned /\ MonotoneCurve(EngProbes)
    => /\ eng_result # Raised("ZeroDivisionError")
       /\ \A b \in BoundedAmounts \cup ExampleAmounts :
             b <= eng_call.amount_in => EngOut(b) <= eng_result.amount_out
       /\ eng_result.amount_out >= 0
       /\ EngProbes # <<>>
             => eng_result.amount_out <= EngProbes[Len(EngProbes)].amount_out
       /\ \A i \in 1..Len(EngProbes) :
             EngProbes[i].amount_in = eng_call.amount_in
             => eng_result.amount_out = EngProbes[i].amount_out

\* C21 witness: a curve of two or more points with rising amount_out was asked
\* for an amount beyond its last point, and for the amount of its second point.
C21_Witness ==
    /\ EngReturned
    /\ MonotoneCurve(EngProbes)
    /\ Len(EngProbes) >= 2
    /\ EngProbes[1].amount_out < EngProbes[2].amount_out
    /\ eng_call.amount_in > EngProbes[Len(EngProbes)].amount_in
    /\ eng_result.amount_out = EngProbes[Len(EngProbes)].amount_out

(* properties of the lifecycle (Spec) *)

\* C22 (as claimed): while the listener is running, from start() until stop()
\* is called, _ws_loop has not ended: it is connecting, subscribing, listening
\* or in its reconnect delay.
C22_LoopAliveWhileRunning ==
    running => ws_task \in Alive

\* C23: a step of stop() (its call, its return, its raise) leaves directions,
\* pair_keys, current_block, block_timestamp and the readiness event as they
\* were; a quote() after stop() has returned is answered from the published
\* snapshot; and a start() waiting on a client that is already Ready can
\* return at once and cannot time out.
C23_StopKeepsState ==
    /\ [][ stop_pc' # stop_pc /\ stop_pc' \in {"awaiting", "returned", "raised"}
           => UNCHANGED client ]_vars
    /\ [][ /\ last_quote'.called
           /\ stop_pc = "returned"
           /\ HasCurve(last_quote'.from_token, last_quote'.to_token)
           => last_quote'.returned =
                 get_amount_out(
                     directions[<<to_checksum_address(last_quote'.from_token),
                                  to_checksum_address(last_quote'.to_token)>>],
                     last_quote'.amount_in, current_block) ]_vars
    /\ [](start_pc = "waiting" /\ initialized
             => ENABLED StartReturn /\ ~ENABLED StartTimeout)

\* C23 witness: after stop() returned on a Ready client, quote() returned a
\* QuoteResult stamped with the published block.
C23_Witness ==
    /\ ReturnedQuote
    /\ stop_pc = "returned"
    /\ ~running
    /\ initialized
    /\ last_quote.returned.block_number = current_block

\* C24: the step in which start() times out leaves the listener, its tasks and
\* the client as they were; from then until stop() is called the listener is
\* running, a listening loop can dispatch the next notification, and a refresh
\* awaiting its fetch can complete.
C24_TimeoutLeavesListenerRunning ==
    /\ [][ start_pc = "waiting" /\ start_pc' = "timeout"
           => running /\ UNCHANGED <<client, listener, tasks>> ]_vars
    /\ [](start_pc = "timeout" /\ stop_pc = "idle"
             => /\ running
                /\ ws_task = "listening" /\ Len(tasks) < MaxTasks
                      => ENABLED (\E n \in 1..MaxBlock : WsNewHead(n))
                /\ \A t \in InFlight :
                      ENABLED (\E resp \in Responses : OnNewBlockFetched(t, resp)))

\* C24 witness: start() timed out, stop() was not called, and a refresh that
\* completed afterwards published a snapshot and made the client Ready.
C24_Witness ==
    /\ start_pc = "timeout"
    /\ stop_pc = "idle"
    /\ running
    /\ initialized
    /\ logged # 0
    /\ tasks[logged].st = "published"

====
